---- MODULE Spec2Model ----
(***************************************************************************)
(* postws: a command-line tool that dials one WebSocket connection, sends  *)
(* one JSON text frame and prints replies until the peer closes, a read    *)
(* fails, or the read timeout fires (src/main.go).                         *)
(*                                                                         *)
(* Strings are sequences of one-character strings, so that url.Parse,      *)
(* URL.String, strings.HasPrefix and strconv.Itoa are computed, not        *)
(* assumed.                                                                *)
(***************************************************************************)
EXTENDS Integers, Sequences, FiniteSets, TLC

\* ------------------------------------------------------------------ bounds

\* Most frames the peer puts on the wire in one run (replies and the final
\* close frame or transport error).
MaxFrames == 3

\* ------------------------------------------------------------- characters

Letters == {"w", "s", "h", "t", "p", "a", "W"}

Digits == {"0", "1", "2", "3", "4", "5", "6", "7", "8", "9"}

DigitChar == <<"0", "1", "2", "3", "4", "5", "6", "7", "8", "9">>

\* strings.ToLower on the characters of the alphabet.
LowerChar(c) == IF c = "W" THEN "w" ELSE c

ToLower(s) == [i \in 1..Len(s) |-> LowerChar(s[i])]

\* strings.HasPrefix
HasPrefix(s, prefix) ==
    /\ Len(s) >= Len(prefix)
    /\ SubSeq(s, 1, Len(prefix)) = prefix

\* strings.Index for a one-character separator: first index from `from`, 0 if none.
RECURSIVE IndexFrom(_, _, _)
IndexFrom(s, c, from) ==
    IF from > Len(s) THEN 0
    ELSE IF s[from] = c THEN from
    ELSE IndexFrom(s, c, from + 1)

Index(s, c) == IndexFrom(s, c, 1)

\* strings.LastIndex for a one-character separator, 0 if none.
RECURSIVE LastIndexFrom(_, _, _)
LastIndexFrom(s, c, from) ==
    IF from < 1 THEN 0
    ELSE IF s[from] = c THEN from
    ELSE LastIndexFrom(s, c, from - 1)

LastIndex(s, c) == LastIndexFrom(s, c, Len(s))

Tail1(s, i) == SubSeq(s, i, Len(s))

\* strconv.Itoa
RECURSIVE ItoaNat(_)
ItoaNat(n) ==
    IF n < 10 THEN <<DigitChar[n + 1]>>
    ELSE ItoaNat(n \div 10) \o <<DigitChar[(n % 10) + 1]>>

Itoa(n) == IF n < 0 THEN <<"-">> \o ItoaNat(-n) ELSE ItoaNat(n)

\* ---------------------------------------------------------------- net/url

\* url.getScheme: the scheme is the run of letters (digits, + - . after the
\* first character) before the first ':'; any other character first means
\* the URL has no scheme; a leading ':' is an error.
RECURSIVE SchemeScan(_, _)
SchemeScan(raw, i) ==
    IF i > Len(raw) THEN [err |-> FALSE, scheme |-> <<>>, rest |-> raw]
    ELSE IF raw[i] \in Letters THEN SchemeScan(raw, i + 1)
    ELSE IF raw[i] \in Digits \cup {"+", "-", "."}
        THEN IF i = 1 THEN [err |-> FALSE, scheme |-> <<>>, rest |-> raw]
             ELSE SchemeScan(raw, i + 1)
    ELSE IF raw[i] = ":"
        THEN IF i = 1 THEN [err |-> TRUE, scheme |-> <<>>, rest |-> raw]
             ELSE [err |-> FALSE, scheme |-> SubSeq(raw, 1, i - 1),
                   rest |-> Tail1(raw, i + 1)]
    ELSE [err |-> FALSE, scheme |-> <<>>, rest |-> raw]

getScheme(raw) == SchemeScan(raw, 1)

\* url.validOptionalPort: "" or ':' followed by digits only.
validOptionalPort(port) ==
    \/ port = <<>>
    \/ /\ port[1] = ":"
       /\ \A i \in 2..Len(port) : port[i] \in Digits

\* url.parseHost, for a host without brackets: what follows the last ':'
\* must be a valid port.
parseHostOK(host) ==
    LET i == LastIndex(host, ":")
    IN  i = 0 \/ validOptionalPort(Tail1(host, i))

\* url.unescape in path mode on the escapes of the alphabet: %3F is '?',
\* %25 is '%'; a '%' not followed by two hex digits is an error.
RECURSIVE unescape(_)
unescape(s) ==
    IF s = <<>> THEN [err |-> FALSE, out |-> <<>>]
    ELSE IF s[1] # "%"
        THEN LET r == unescape(Tail(s))
             IN  [err |-> r.err, out |-> <<s[1]>> \o r.out]
    ELSE IF Len(s) >= 3 /\ SubSeq(s, 2, 3) \in {<<"3", "F">>, <<"2", "5">>}
        THEN LET r == unescape(Tail1(s, 4))
             IN  [err |-> r.err,
                  out |-> <<IF s[2] = "3" THEN "?" ELSE "%">> \o r.out]
    ELSE [err |-> TRUE, out |-> <<>>]

\* url.escape in path mode: of the alphabet only '?' and '%' are escaped.
RECURSIVE escapePath(_)
escapePath(s) ==
    IF s = <<>> THEN <<>>
    ELSE (IF s[1] = "?" THEN <<"%", "3", "F">>
          ELSE IF s[1] = "%" THEN <<"%", "2", "5">>
          ELSE <<s[1]>>) \o escapePath(Tail(s))

NoURL ==
    [err |-> TRUE, Scheme |-> <<>>, Opaque |-> <<>>, Host |-> <<>>,
     Path |-> <<>>, RawQuery |-> <<>>, ForceQuery |-> FALSE, OmitHost |-> FALSE]

\* url.Parse (no fragment, no userinfo: the alphabet has no '#' and no '@').
Parse(rawURL) ==
    LET sch == getScheme(rawURL)
        q == Index(sch.rest, "?")
        force == q # 0 /\ q = Len(sch.rest)
        rest0 == IF q = 0 THEN sch.rest ELSE SubSeq(sch.rest, 1, q - 1)
        query == IF q = 0 THEN <<>> ELSE Tail1(sch.rest, q + 1)
        scheme == ToLower(sch.scheme)
        seg == LET i == Index(rest0, "/")
               IN  IF i = 0 THEN rest0 ELSE SubSeq(rest0, 1, i - 1)
        hasAuth == HasPrefix(rest0, <<"/", "/">>)
        auth0 == Tail1(rest0, 3)
        slash == Index(auth0, "/")
        authority == IF slash = 0 THEN auth0 ELSE SubSeq(auth0, 1, slash - 1)
        rest1 == IF ~hasAuth THEN rest0
                 ELSE IF slash = 0 THEN <<>> ELSE Tail1(auth0, slash)
        p == unescape(rest1)
    IN  IF sch.err THEN NoURL
        ELSE IF ~HasPrefix(rest0, <<"/">>) /\ scheme # <<>>
            THEN [NoURL EXCEPT !.err = FALSE, !.Scheme = scheme, !.Opaque = rest0,
                               !.RawQuery = query, !.ForceQuery = force]
        ELSE IF ~HasPrefix(rest0, <<"/">>) /\ Index(seg, ":") # 0 THEN NoURL
        ELSE IF hasAuth /\ ~parseHostOK(authority) THEN NoURL
        ELSE IF p.err THEN NoURL
        ELSE [err |-> FALSE, Scheme |-> scheme, Opaque |-> <<>>,
              Host |-> IF hasAuth THEN authority ELSE <<>>,
              Path |-> p.out, RawQuery |-> query, ForceQuery |-> force,
              OmitHost |-> ~hasAuth /\ scheme # <<>> /\ HasPrefix(rest0, <<"/">>)]

\* URL.Hostname and URL.Port: the host split at its last ':'.
Hostname(u) ==
    LET i == LastIndex(u.Host, ":")
    IN  IF i = 0 THEN u.Host ELSE SubSeq(u.Host, 1, i - 1)

Port(u) ==
    LET i == LastIndex(u.Host, ":")
    IN  IF i = 0 THEN <<>> ELSE Tail1(u.Host, i + 1)

\* net.JoinHostPort (the alphabet's hosts hold no ':' after Hostname).
JoinHostPort(host, port) == host \o <<":">> \o port

\* URL.String
String(u) ==
    LET path == escapePath(u.Path)
        head == IF u.Scheme # <<>> THEN u.Scheme \o <<":">> ELSE <<>>
        auth == IF u.Scheme # <<>> \/ u.Host # <<>>
                THEN IF u.OmitHost /\ u.Host = <<>> THEN <<>>
                     ELSE (IF u.Host # <<>> \/ u.Path # <<>>
                           THEN <<"/", "/">> ELSE <<>>) \o u.Host
                ELSE <<>>
        sep == IF path # <<>> /\ path[1] # "/" /\ u.Host # <<>>
               THEN <<"/">> ELSE <<>>
        query == IF u.ForceQuery \/ u.RawQuery # <<>>
                 THEN <<"?">> \o u.RawQuery ELSE <<>>
    IN  IF u.Opaque # <<>> THEN head \o u.Opaque \o query
        ELSE head \o auth \o sep \o path \o query

\* ------------------------------------------------------------- buildURL

\* main.go:164-166: a leading "/" is added only when the path lacks one.
NormalizePathAlways(path) == <<"/">> \o path

NormalizePath(path) ==
    IF ~HasPrefix(path, <<"/">>) THEN <<"/">> \o path ELSE path

\* main.go:168-170: a port > 0 replaces the host's port.
OverrideHost(u, port) ==
    IF port > 0 THEN JoinHostPort(Hostname(u), Itoa(port)) ELSE u.Host

\* buildURL: err is "" for nil; url is the returned string ("" on error).
buildURL(rawURL, path, port) ==
    LET u == Parse(rawURL)
    IN  IF u.err THEN [err |-> "parse url", url |-> <<>>]
        ELSE IF u.Scheme = <<>> THEN [err |-> "url must include scheme", url |-> <<>>]
        ELSE IF u.Scheme # <<"w", "s">> /\ u.Scheme # <<"w", "s", "s">>
            THEN [err |-> "unsupported scheme", url |-> <<>>]
        ELSE IF u.Host = <<>> THEN [err |-> "url must include host", url |-> <<>>]
        ELSE [err |-> "",
              url |-> String([u EXCEPT !.Path = NormalizePath(path),
                                       !.Host = OverrideHost(u, port)])]

\* ---------------------------------------------------------- configuration

ws(tail) == <<"w", "s", ":", "/", "/">> \o tail

wss(tail) == <<"w", "s", "s", ":", "/", "/">> \o tail

\* -url values that pass parseFlags (non-empty): valid bases with and without
\* a port, an upper-case scheme, a base path and query, and the failing
\* shapes (other scheme, no scheme, no host, opaque, bad port, leading ':').
BaseURLs ==
    { ws(<<"h">>), ws(<<"h", ":", "8">>), wss(<<"h">>), wss(<<"h", ":", "8", "/", "p">>),
      <<"W", "s">> \o <<":", "/", "/", "h">>, ws(<<"h", "?", "a">>),
      <<"h", "t", "t", "p", ":", "/", "/", "h">>,
      <<"/", "/", "h">>, <<"h">>, ws(<<>>), ws(<<"/", "p">>), <<"w", "s", ":", "h">>,
      ws(<<"h", ":", "a">>), <<":", "/", "/", "h">> }

\* -path values that pass parseFlags (non-empty).
Paths == { <<"a">>, <<"/", "a">>, <<"/">>, <<"a", "?", "a">>, <<"/", "/", "a">> }

\* -port values: negative, unset, and an override of two digits.
Ports == { -1, 0, 80 }

\* -read-timeout values, in timer ticks: negative, 0 (wait indefinitely), positive.
ReadTimeouts == { -1, 0, 1, 2 }

Options ==
    [baseURL : BaseURLs, path : Paths, port : Ports,
     readTimeout : ReadTimeouts, insecureTLS : BOOLEAN]

\* ------------------------------------------------------------------ state

VARIABLES
    opts,       \* the parsed options (main.go:19-27), fixed for the run
    pc,         \* position of the main task in run
    fullURL,    \* the URL buildURL returned
    runErr,     \* the error run returned ("" is nil)
    exitCode,   \* the process exit code, -1 while running
    conn,       \* "nil", "open" or "closed"
    dials,      \* dialer.Dial calls
    writes,     \* conn.WriteMessage calls
    sent,       \* the payload write succeeded
    closeWrites,\* conn.WriteControl(CloseMessage) calls
    closeSent,  \* a close control frame reached the wire
    recv,       \* the receive goroutine: "idle", "reading" or "done"
    recvStarts, \* goroutines started
    nRead,      \* frames ReadMessage returned without error
    endKind,    \* why the read loop ended: "", "remote close", "local close", "read error"
    wire,       \* frames and terminal conditions queued from the peer, oldest first
    peerFrames, \* how many the peer has queued so far
    timer,      \* time.After(readTimeout): armed, elapsed ticks, fired, replies read at fire
    stdout,     \* lines printed to standard output
    stderr      \* lines printed to standard error

vars ==
    <<opts, pc, fullURL, runErr, exitCode, conn, dials, writes, sent, closeWrites,
      closeSent, recv, recvStarts, nRead, endKind, wire, peerFrames, timer, stdout, stderr>>

netVars == <<wire, peerFrames>>

recvVars == <<recv, nRead, endKind>>

Init ==
    /\ opts \in Options
    /\ pc = "run"
    /\ fullURL = <<>>
    /\ runErr = ""
    /\ exitCode = -1
    /\ conn = "nil"
    /\ dials = 0
    /\ writes = 0
    /\ sent = FALSE
    /\ closeWrites = 0
    /\ closeSent = FALSE
    /\ recv = "idle"
    /\ recvStarts = 0
    /\ nRead = 0
    /\ endKind = ""
    /\ wire = <<>>
    /\ peerFrames = 0
    /\ timer = [armed |-> FALSE, elapsed |-> 0, fired |-> FALSE, readAtFire |-> 0]
    /\ stdout = <<>>
    /\ stderr = <<>>

\* ------------------------------------------------------------- main task

\* main.go:106: defer conn.Close() runs on every return after the dial succeeded.
DeferredCloseLeak(c) == c

DeferredClose(c) == IF c = "open" THEN "closed" ELSE c

\* main.go:37-40: exit code 1 with "error: ..." on stderr when run returns an
\* error; falling off main exits 0.
ExitCodeOf(err) == IF err # "" THEN 1 ELSE 0

MainExit(err) ==
    /\ pc' = "exited"
    /\ runErr' = err
    /\ exitCode' = ExitCodeOf(err)
    /\ stderr' = IF err # "" THEN Append(stderr, "error: " \o err) ELSE stderr

\* main.go:86: -insecure-skip-verify on a URL that does not start with "wss://".
SchemeMismatchNever(insecure, url) == FALSE

SchemeMismatch(insecure, url) == insecure /\ ~HasPrefix(url, wss(<<>>))

\* main.go:82-100: build the URL, refuse the flag mismatch, marshal the
\* payload (json.Marshal of a map[string]string does not fail), set up the dialer.
BuildStep ==
    /\ pc = "run"
    /\ LET r == buildURL(opts.baseURL, opts.path, opts.port)
       IN  IF r.err # "" THEN MainExit(r.err) /\ UNCHANGED fullURL
           ELSE IF SchemeMismatch(opts.insecureTLS, r.url)
               THEN MainExit("-insecure-skip-verify is only valid with wss:// URLs")
                    /\ fullURL' = r.url
           ELSE /\ pc' = "dial"
                /\ fullURL' = r.url
                /\ UNCHANGED <<runErr, exitCode, stderr>>
    /\ UNCHANGED <<opts, conn, dials, writes, sent, closeWrites, closeSent,
                   recvVars, recvStarts, netVars, timer, stdout>>

\* main.go:102-110: one dial; on failure run returns, on success the
\* connection is open, its release is deferred and the status is reported.
Dial ==
    /\ pc = "dial"
    /\ dials' = dials + 1
    /\ \E ok \in BOOLEAN :
        IF ok
        THEN /\ conn' = "open"
             /\ pc' = "send"
             /\ stderr' = Append(stderr, "connected")
             /\ UNCHANGED <<runErr, exitCode>>
        ELSE /\ MainExit("dial")
             /\ UNCHANGED conn
    /\ UNCHANGED <<opts, fullURL, writes, sent, closeWrites, closeSent,
                   recvVars, recvStarts, netVars, timer, stdout>>

\* Mutant of Send: a failed write is attempted again.
SendRetry ==
    /\ pc = "send"
    /\ writes' = writes + 1
    /\ \E ok \in BOOLEAN :
        IF ok
        THEN /\ sent' = TRUE
             /\ stdout' = Append(stdout, "sent")
             /\ pc' = "spawn"
        ELSE /\ pc' = "send"
             /\ UNCHANGED <<sent, stdout>>
    /\ UNCHANGED <<opts, fullURL, runErr, exitCode, stderr, conn, dials, closeWrites,
                   closeSent, recvVars, recvStarts, netVars, timer>>

\* Mutant of Send: the write error is ignored and the run goes on to receive.
SendIgnoreError ==
    /\ pc = "send"
    /\ writes' = writes + 1
    /\ \E ok \in BOOLEAN :
        /\ sent' = ok
        /\ stdout' = Append(stdout, "sent")
        /\ pc' = "spawn"
    /\ UNCHANGED <<opts, fullURL, runErr, exitCode, stderr, conn, dials, closeWrites,
                   closeSent, recvVars, recvStarts, netVars, timer>>

\* main.go:112-115: one WriteMessage of the payload; on failure run returns
\* the send error (the deferred Close runs), on success "sent: ..." is printed.
Send ==
    /\ pc = "send"
    /\ writes' = writes + 1
    /\ \E ok \in BOOLEAN :
        IF ok
        THEN /\ sent' = TRUE
             /\ stdout' = Append(stdout, "sent")
             /\ pc' = "spawn"
             /\ UNCHANGED <<runErr, exitCode, stderr, conn>>
        ELSE /\ MainExit("send message")
             /\ conn' = DeferredClose(conn)
             /\ UNCHANGED <<sent, stdout>>
    /\ UNCHANGED <<opts, fullURL, dials, closeWrites, closeSent,
                   recvVars, recvStarts, netVars, timer>>

\* main.go:131: the timeout race is entered only for a read timeout > 0.
TimerWantedNonNegative(readTimeout) == readTimeout >= 0

TimerWanted(readTimeout) == readTimeout > 0

\* main.go:117-134, 144: make the done channel, start the receive goroutine,
\* then either enter the select (time.After arms the timer, once) or the
\* plain wait on done.
Spawn ==
    /\ pc = "spawn"
    /\ recv' = "reading"
    /\ recvStarts' = recvStarts + 1
    /\ IF TimerWanted(opts.readTimeout)
       THEN /\ pc' = "select"
            /\ timer' = [timer EXCEPT !.armed = TRUE, !.elapsed = 0]
       ELSE /\ pc' = "wait"
            /\ UNCHANGED timer
    /\ UNCHANGED <<opts, fullURL, runErr, exitCode, stderr, conn, dials, writes, sent,
                   closeWrites, closeSent, nRead, endKind, netVars, stdout>>

\* Mutant of ReturnNil: a transport read error is returned as the run's error.
ReturnReadError ==
    /\ MainExit(IF endKind = "read error" THEN "read message" ELSE "")
    /\ conn' = DeferredClose(conn)

\* main.go:147 and 106: run returns nil; the deferred Close releases the connection.
ReturnNil ==
    /\ MainExit("")
    /\ conn' = DeferredClose(conn)

\* main.go:133: the select takes the done case.
SelectDone ==
    /\ pc = "select"
    /\ recv = "done"
    /\ ReturnNil
    /\ UNCHANGED <<opts, fullURL, dials, writes, sent, closeWrites, closeSent,
                   recvVars, recvStarts, netVars, timer, stdout>>

\* main.go:134-140: the select takes the timer case (when both are ready Go
\* picks either): the notice is printed and one close control frame is
\* written, its error ignored.
SelectTimeout ==
    /\ pc = "select"
    /\ timer.armed
    /\ timer.elapsed >= opts.readTimeout
    /\ timer' = [timer EXCEPT !.fired = TRUE, !.readAtFire = nRead]
    /\ stderr' = Append(stderr, "no more messages; closing connection")
    /\ closeWrites' = closeWrites + 1
    /\ \E ok \in BOOLEAN : closeSent' = ok
    /\ pc' = "waitClose"
    /\ UNCHANGED <<opts, fullURL, runErr, exitCode, conn, dials, writes, sent,
                   recvVars, recvStarts, netVars, stdout>>

\* Mutant of WaitDone: the wait after the close frame gives up on its own.
WaitDoneBounded ==
    /\ pc \in {"wait", "waitClose"}
    /\ recv = "done" \/ pc = "waitClose"
    /\ ReturnNil
    /\ UNCHANGED <<opts, fullURL, dials, writes, sent, closeWrites, closeSent,
                   recvVars, recvStarts, netVars, timer, stdout>>

\* main.go:141 and 144: <-done, with no timer; then return nil.
WaitDone ==
    /\ pc \in {"wait", "waitClose"}
    /\ recv = "done"
    /\ ReturnNil
    /\ UNCHANGED <<opts, fullURL, dials, writes, sent, closeWrites, closeSent,
                   recvVars, recvStarts, netVars, timer, stdout>>

MainNext == BuildStep \/ Dial \/ Send \/ Spawn \/ SelectDone \/ SelectTimeout \/ WaitDone

\* ---------------------------------------------------------- receive task

\* main.go:174-181: valid JSON is printed indented after "recv:", anything
\* else raw after "recv: ".
printMessage(msg) == IF msg = "json" THEN "recv:indented" ELSE "recv: raw"

IsMessage(frame) == frame \in {"json", "text"}

\* Mutant of RecvMessage: every received frame restarts the timer (an idle timeout).
RecvMessageResetsTimer ==
    /\ recv = "reading"
    /\ wire # <<>>
    /\ IsMessage(Head(wire))
    /\ wire' = Tail(wire)
    /\ nRead' = nRead + 1
    /\ stdout' = Append(stdout, printMessage(Head(wire)))
    /\ timer' = IF timer.fired THEN timer ELSE [timer EXCEPT !.elapsed = 0]
    /\ UNCHANGED <<opts, pc, fullURL, runErr, exitCode, conn, dials, writes, sent,
                   closeWrites, closeSent, recv, recvStarts, endKind, peerFrames,
                   stderr>>

\* main.go:121, 127: ReadMessage returns a frame, which is printed; the loop goes on.
RecvMessage ==
    /\ recv = "reading"
    /\ wire # <<>>
    /\ IsMessage(Head(wire))
    /\ wire' = Tail(wire)
    /\ nRead' = nRead + 1
    /\ stdout' = Append(stdout, printMessage(Head(wire)))
    /\ UNCHANGED <<opts, pc, fullURL, runErr, exitCode, conn, dials, writes, sent,
                   closeWrites, closeSent, recv, recvStarts, endKind, peerFrames,
                   timer, stderr>>

\* main.go:119, 121-125: ReadMessage returns an error (a close frame or a
\* transport failure); it is printed, the loop ends and done is closed.
RecvError ==
    /\ recv = "reading"
    /\ wire # <<>>
    /\ ~IsMessage(Head(wire))
    /\ wire' = Tail(wire)
    /\ endKind' = Head(wire)
    /\ stderr' = Append(stderr, "read finished")
    /\ recv' = "done"
    /\ UNCHANGED <<opts, pc, fullURL, runErr, exitCode, conn, dials, writes, sent,
                   closeWrites, closeSent, recvStarts, nRead, peerFrames, timer, stdout>>

RecvNext == RecvMessage \/ RecvError

\* ------------------------------------------------------------ environment

PeerCanAct ==
    /\ conn = "open"
    /\ peerFrames < MaxFrames
    /\ \A i \in 1..Len(wire) : IsMessage(wire[i])
    /\ endKind = ""

Queue(frame) ==
    /\ wire' = Append(wire, frame)
    /\ peerFrames' = peerFrames + 1
    /\ UNCHANGED <<opts, pc, fullURL, runErr, exitCode, conn, dials, writes, sent,
                   closeWrites, closeSent, recvVars, recvStarts, timer, stdout, stderr>>

\* The peer sends a text frame: valid JSON or not.
PeerSend == PeerCanAct /\ \E kind \in {"json", "text"} : Queue(kind)

\* The peer closes of its own accord.
PeerClose == PeerCanAct /\ ~closeSent /\ Queue("remote close")

\* The peer answers the close control frame the run sent.
PeerCloseReply == PeerCanAct /\ closeSent /\ Queue("local close")

\* The transport fails under the reader.
TransportError == PeerCanAct /\ Queue("read error")

\* Time passes on the armed, unfired timer.
Tick ==
    /\ timer.armed
    /\ ~timer.fired
    /\ timer.elapsed < opts.readTimeout
    /\ pc = "select"
    /\ timer' = [timer EXCEPT !.elapsed = @ + 1]
    /\ UNCHANGED <<opts, pc, fullURL, runErr, exitCode, conn, dials, writes, sent,
                   closeWrites, closeSent, recvVars, recvStarts, netVars, stdout, stderr>>

EnvNext == PeerSend \/ PeerClose \/ PeerCloseReply \/ TransportError

Next == MainNext \/ RecvNext \/ EnvNext \/ Tick

Spec == Init /\ [][Next]_vars

\* For the behaviours after the dial the URL inputs do not matter: one ws
\* and one wss base, every read timeout, with and without the TLS flag.
ExchangeOptions ==
    [baseURL : {ws(<<"h">>), wss(<<"h">>)}, path : {<<"/", "a">>}, port : {0},
     readTimeout : ReadTimeouts, insecureTLS : BOOLEAN]

ExchangeInit ==
    /\ Init
    /\ opts \in ExchangeOptions

\* The Go scheduler runs both goroutines and the runtime timer advances; the
\* peer and the network promise nothing.
FairSpec ==
    /\ ExchangeInit
    /\ [][Next]_vars
    /\ WF_vars(MainNext)
    /\ WF_vars(RecvNext)
    /\ WF_vars(Tick)

\* ------------------------------------------------------------ properties

WS == <<"w", "s">>

WSS == <<"w", "s", "s">>

RecvLines == {"recv:indented", "recv: raw"}

URLErrors ==
    {"url must include scheme", "unsupported scheme", "url must include host"}

MismatchError == "-insecure-skip-verify is only valid with wss:// URLs"

TimeoutNotice == "no more messages; closing connection"

Lines(out) == {out[i] : i \in 1..Len(out)}

\* C1: the payload is written exactly once in a run whose dial succeeded,
\* never a second time and never before or without a successful dial, on
\* every path the run takes afterwards; "sent:" is printed at most once.
C1_PayloadWrittenOnce ==
    /\ writes <= 1
    /\ conn = "nil" => writes = 0
    /\ (conn # "nil" /\ pc # "send") => writes = 1
    /\ Cardinality({i \in 1..Len(stdout) : stdout[i] = "sent"}) = IF sent THEN 1 ELSE 0

\* C1 witness: a run that ended through the timeout-triggered close after
\* reading a reply, with its single write.
C1_Witness ==
    /\ pc = "exited"
    /\ timer.fired
    /\ endKind = "local close"
    /\ nRead > 0
    /\ writes = 1

\* C3: when the run has ended, no connection it opened is still open.
C3_ConnectionReleased == pc = "exited" => conn # "open"

\* C3 witness: the run ended on the send-error path with its connection closed.
C3_Witness == pc = "exited" /\ runErr = "send message" /\ conn = "closed"

\* C4: the receive task runs only after the payload write succeeded, is
\* started at most once, is never started when the write failed, and no
\* reply is read or printed before "sent:".
C4_SendBeforeReceive ==
    /\ recv # "idle" => sent
    /\ recvStarts <= 1
    /\ recvStarts = 1 <=> recv # "idle"
    /\ (writes > 0 /\ ~sent) => (recvStarts = 0 /\ nRead = 0)
    /\ nRead > 0 => sent
    /\ \A i \in 1..Len(stdout) :
        stdout[i] \in RecvLines => (i > 1 /\ stdout[1] = "sent")

\* C4 witness: the receive task, started once after the successful send,
\* has read a reply and is still reading.
C4_Witness == nRead > 0 /\ recvStarts = 1 /\ recv = "reading" /\ sent

\* C5: after the payload was sent, however the read loop ends, run returns
\* nil and the process exits 0, never 1, with no "error:" line.
C5_ReadEndIsSuccess ==
    /\ (sent /\ pc = "exited") =>
        /\ exitCode = 0
        /\ runErr = ""
        /\ endKind \in {"remote close", "local close", "read error"}
    /\ endKind # "" => (sent /\ exitCode \in {-1, 0} /\ runErr = "")
    /\ (endKind # "" /\ pc = "exited") => Lines(stderr) \cap {"error: read message"} = {}

\* C5 witness: the run ended after a transport read error, with exit code 0.
C5_Witness == pc = "exited" /\ endKind = "read error" /\ exitCode = 0

\* C6: with -insecure-skip-verify and a built URL that is not a wss URL the
\* run fails with the scheme-mismatch error and exit code 1 without any
\* dial, write or receive task.
C6_MismatchBeforeNetwork ==
    LET r == buildURL(opts.baseURL, opts.path, opts.port)
    IN  (r.err = "" /\ opts.insecureTLS /\ Parse(r.url).Scheme # WSS) =>
            /\ dials = 0
            /\ writes = 0
            /\ recvStarts = 0
            /\ conn = "nil"
            /\ pc \in {"run", "exited"}
            /\ pc = "exited" => (runErr = MismatchError /\ exitCode = 1)

\* C6 witness: a run that ended with the scheme-mismatch error.
C6_Witness == pc = "exited" /\ runErr = MismatchError /\ opts.insecureTLS

\* C7: with a read timeout of 0 no timer is armed and no close control frame
\* is ever written; after the send the run ends only once the receive task
\* has ended on a peer close or a read error, and while the receive task is
\* still reading the main task has no step to take.
C7_NoTimerWhenZero ==
    opts.readTimeout = 0 =>
        /\ ~timer.armed
        /\ ~timer.fired
        /\ closeWrites = 0
        /\ pc \notin {"select", "waitClose"}
        /\ (sent /\ pc = "exited") => (recv = "done" /\ endKind \in {"remote close", "read error"})
        /\ (pc = "wait" /\ recv = "reading") => ~ENABLED MainNext

\* C7 witness: read timeout 0, the peer has sent all it will and neither
\* closes nor fails: the run is blocked on the receive task.
C7_Witness ==
    /\ opts.readTimeout = 0
    /\ pc = "wait"
    /\ recv = "reading"
    /\ wire = <<>>
    /\ nRead > 0

\* C8: for a base URL with scheme ws or wss and a host, buildURL succeeds
\* and the returned URL has the input's scheme, the path with a leading "/"
\* added only when it was missing, and the override port when port > 0, the
\* base URL's own port otherwise; with no scheme, another scheme or no host
\* it fails and returns no URL.
C8_BuildURL ==
    pc # "run" =>
        LET u == Parse(opts.baseURL)
            out == Parse(fullURL)
        IN  IF u.err THEN TRUE
            ELSE IF u.Scheme \in {WS, WSS} /\ u.Host # <<>>
            THEN /\ runErr \notin URLErrors
                 /\ ~out.err
                 /\ out.Scheme = u.Scheme
                 /\ HasPrefix(out.Path, <<"/">>)
                 /\ out.Path = IF Head(opts.path) = "/" THEN opts.path
                               ELSE <<"/">> \o opts.path
                 /\ Port(out) = IF opts.port > 0 THEN Itoa(opts.port) ELSE Port(u)
            ELSE /\ runErr \in URLErrors
                 /\ fullURL = <<>>
                 /\ pc = "exited"
                 /\ exitCode = 1

\* C8 witness: buildURL has run on a base URL with its own port, a port
\* override and a path without a leading "/".
C8_Witness ==
    /\ pc = "dial"
    /\ Port(Parse(opts.baseURL)) # <<>>
    /\ opts.port > 0
    /\ Head(opts.path) # "/"

\* C9: after a successful send the main task does not return while the
\* receive task is running; after the timer fired and the close control
\* frame was written it has no step to take until the receive task ends, so
\* a run that ends on the timeout path ended on a read error or closure.
C9_MainWaitsForReceive ==
    /\ (sent /\ pc = "exited") => recv = "done"
    /\ pc = "waitClose" => (timer.fired /\ closeWrites = 1)
    /\ (pc = "waitClose" /\ recv # "done") => ~ENABLED MainNext
    /\ (timer.fired /\ pc = "exited") =>
        endKind \in {"remote close", "local close", "read error"}

\* C9 witness: the close control frame was written (and lost), the peer is
\* silent, and the main task waits on the receive task.
C9_Witness ==
    /\ pc = "waitClose"
    /\ recv = "reading"
    /\ ~closeSent
    /\ wire = <<>>

\* C10: the timer is armed once, after the send, and reading a frame never
\* changes it; the close control frame is written at most once, only for a
\* read timeout > 0, and only by the main task in its select when the timer
\* has run out.
C10_TimerNotReset ==
    /\ [](closeWrites <= 1)
    /\ []((closeWrites = 1) <=> timer.fired)
    /\ [](timer.armed => (sent /\ opts.readTimeout > 0))
    /\ [](timer.fired => (timer.armed /\ timer.elapsed >= opts.readTimeout))
    /\ [][nRead' # nRead => timer' = timer]_vars
    /\ [][timer.armed => (timer'.armed /\ timer'.elapsed >= timer.elapsed)]_vars
    /\ [][closeWrites' # closeWrites =>
            (pc = "select" /\ timer.elapsed >= opts.readTimeout)]_vars

\* C10 witness: the timer fired, and the close frame was written, after two
\* replies had been read and printed.
C10_Witness ==
    /\ timer.fired
    /\ timer.readAtFire >= 2
    /\ closeWrites = 1
    /\ Cardinality({i \in 1..Len(stdout) : stdout[i] \in RecvLines}) >= 2

\* C2: when the read timeout (> 0) runs out with no reply received, the run
\* writes a close control frame, prints the timeout notice, prints no recv
\* line and terminates with exit code 0.
C2_TimeoutTerminates ==
    (timer.fired /\ nRead = 0) ~>
        \/ nRead > 0
        \/ /\ pc = "exited"
           /\ exitCode = 0
           /\ closeWrites = 1
           /\ TimeoutNotice \in Lines(stderr)
           /\ Lines(stdout) \cap RecvLines = {}

====
